---- MODULE Spec2Model ----
(***************************************************************************)
(* Model of the Rwandan contact number fixer (src/app/index.tsx).          *)
(*                                                                         *)
(* Strings are sequences of one-character strings, so that cleaning,       *)
(* prefix tests, slicing and the label regular expression are computed     *)
(* character by character, as the code computes them.                      *)
(***************************************************************************)
EXTENDS Naturals, Sequences, FiniteSets

VARIABLES
    store,             \* the device contact store: contact id -> raw contact
    contacts,          \* useState<Contact[]>: the in-memory list
    selectedContacts,  \* useState<Set<string>>
    loadingStates,     \* useState<LoadingStates>
    mounted,           \* whether the useEffect that loads on mount has run
    loadPc,            \* per caller of loadContacts: where that call stands
    fixPc,             \* per contact: where handleFix(contact) stands
    fixArg,            \* per contact: the number list handleFix submitted
    batchPc,           \* where handleFixSelected stands
    pending,           \* updateContactAsync calls of handleFixSelected in flight
    phones,            \* input of the pure-function specification
    fn                 \* last application of a pure function to that input

vars == <<store, contacts, selectedContacts, loadingStates, mounted, loadPc,
          fixPc, fixArg, batchPc, pending, phones, fn>>

appVars == <<store, contacts, selectedContacts, loadingStates, mounted, loadPc,
             fixPc, fixArg, batchPc, pending>>

----------------------------------------------------------------------------
(* Bounds *)

MaxPhones == 3        \* longest phone list given to the pure functions

----------------------------------------------------------------------------
(* Strings *)

\* a value that is null or undefined in the code
null == <<"null">>

undefined == "undefined"

s07 == <<"0", "7">>

s2507 == <<"+", "2", "5", "0", "7">>

s25 == <<"+", "2", "5">>

s250 == <<"+", "2", "5", "0">>

other == <<"o", "t", "h", "e", "r">>

\* String.prototype.startsWith
startsWith(s, p) == Len(s) >= Len(p) /\ SubSeq(s, 1, Len(p)) = p

\* String.prototype.slice(n)
slice(s, n) == SubSeq(s, n + 1, Len(s))

\* number.replace(/[\s-]/g, "")
IsKept(ch) == ch \notin {" ", "-"}

cleanNumber(number) == SelectSeq(number, IsKept)

\* label.replace(/'/g, '')
IsNotPrime(ch) == ch # "'"

stripPrimes(label) == SelectSeq(label, IsNotPrime)

IsPrime(ch) == ch = "'"

\* existing.match(/'/g)?.length || 0
countPrimes(s) == Len(SelectSeq(s, IsPrime))

\* "'".repeat(n)
RECURSIVE repeatPrime(_)
repeatPrime(n) == IF n = 0 THEN <<>> ELSE <<"'">> \o repeatPrime(n - 1)

\* the number of trailing prime marks of a string
RECURSIVE trailingPrimes(_)
trailingPrimes(s) ==
    IF s = <<>> \/ s[Len(s)] # "'" THEN 0
    ELSE 1 + trailingPrimes(SubSeq(s, 1, Len(s) - 1))

Max(S) == CHOOSE x \in S : \A y \in S : y <= x

----------------------------------------------------------------------------
(* Pure helpers of src/app/index.tsx *)

isRwandanNumber(number) ==
    LET clean == cleanNumber(number)
    IN  startsWith(clean, s07) \/ startsWith(clean, s2507)

addCountryCode(number) ==
    LET clean == cleanNumber(number)
    IN  IF startsWith(clean, s07) THEN s250 \o clean ELSE clean

\* one character of the pattern against one character of the subject: the
\* label is pasted into the regular expression unescaped, so "." is the
\* wildcard; every other character of the alphabet used here is a literal
regexCharMatches(p, ch) == p = "." \/ p = ch

\* new RegExp(`^${baseLabel}'*$`).test(existing)
labelPatternTest(baseLabel, existing) ==
    /\ Len(existing) >= Len(baseLabel)
    /\ \A i \in 1..Len(baseLabel) : regexCharMatches(baseLabel[i], existing[i])
    /\ \A i \in (Len(baseLabel) + 1)..Len(existing) : existing[i] = "'"

getNextLabel(label, existingLabels) ==
    LET baseLabel == stripPrimes(label)
        counts == {countPrimes(existingLabels[i]) :
                     i \in {j \in DOMAIN existingLabels :
                              labelPatternTest(baseLabel, existingLabels[j])}}
        primeCount == Max(counts \cup {0})
    IN  baseLabel \o repeatPrime(primeCount + 1)

\* the same test with the cleaning of p.number left out
hasCleanNumber_raw(phoneNumbers, n) ==
    \E i \in DOMAIN phoneNumbers : phoneNumbers[i].number = n

\* contact.phoneNumbers.some(p => p.number.replace(/[\s-]/g, "") === n)
hasCleanNumber(phoneNumbers, n) ==
    \E i \in DOMAIN phoneNumbers : cleanNumber(phoneNumbers[i].number) = n

\* a copy of the Rwandan numbers only
spread_rwandan(phoneNumbers) ==
    SelectSeq(phoneNumbers, LAMBDA p : isRwandanNumber(p.number))

\* [...contact.phoneNumbers]
spread(phoneNumbers) == phoneNumbers

\* "+250" + cleanNumber, as addCountryCode has it
withCodeOf_250(clean) == s250 \o clean

\* "+25" + cleanNumber
withCodeOf(clean) == s25 \o clean

\* cleanNumber.slice(3)
withoutCodeOf(clean) == slice(clean, 3)

IsRwandanPhone(p) == isRwandanNumber(p.number)

newPhone(label, number) == [label |-> label, number |-> number, id |-> undefined]

\* the body of the try block of handleFix up to the store call
handleFixPhones(phoneNumbers) ==
    LET existingLabels == [i \in DOMAIN phoneNumbers |-> phoneNumbers[i].label]
        rwandanNumbers == SelectSeq(phoneNumbers, IsRwandanPhone)
        RECURSIVE loop(_, _)
        loop(k, updatedPhoneNumbers) ==
            IF k > Len(rwandanNumbers) THEN updatedPhoneNumbers
            ELSE LET phone == rwandanNumbers[k]
                     clean == cleanNumber(phone.number)
                     withCode == withCodeOf(clean)
                     withoutCode == withoutCodeOf(clean)
                     label == getNextLabel(phone.label, existingLabels)
                 IN  IF startsWith(clean, s07)
                     THEN IF ~hasCleanNumber(phoneNumbers, withCode)
                          THEN loop(k + 1, Append(updatedPhoneNumbers,
                                                  newPhone(label, withCode)))
                          ELSE loop(k + 1, updatedPhoneNumbers)
                     ELSE IF startsWith(clean, s2507)
                     THEN IF ~hasCleanNumber(phoneNumbers, withoutCode)
                          THEN loop(k + 1, Append(updatedPhoneNumbers,
                                                  newPhone(label, withoutCode)))
                          ELSE loop(k + 1, updatedPhoneNumbers)
                     ELSE loop(k + 1, updatedPhoneNumbers)
    IN  loop(1, spread(phoneNumbers))

\* the same computation as written out again in handleFixSelected
handleFixSelectedPhones(phoneNumbers) ==
    LET existingLabels == [i \in DOMAIN phoneNumbers |-> phoneNumbers[i].label]
        rwandanNumbers == SelectSeq(phoneNumbers, IsRwandanPhone)
        RECURSIVE loop(_, _)
        loop(k, updatedPhoneNumbers) ==
            IF k > Len(rwandanNumbers) THEN updatedPhoneNumbers
            ELSE LET phone == rwandanNumbers[k]
                     clean == cleanNumber(phone.number)
                     withCode == withCodeOf(clean)
                     withoutCode == withoutCodeOf(clean)
                     label == getNextLabel(phone.label, existingLabels)
                 IN  IF startsWith(clean, s07)
                     THEN IF ~hasCleanNumber(phoneNumbers, withCode)
                          THEN loop(k + 1, Append(updatedPhoneNumbers,
                                                  newPhone(label, withCode)))
                          ELSE loop(k + 1, updatedPhoneNumbers)
                     ELSE IF startsWith(clean, s2507)
                     THEN IF ~hasCleanNumber(phoneNumbers, withoutCode)
                          THEN loop(k + 1, Append(updatedPhoneNumbers,
                                                  newPhone(label, withoutCode)))
                          ELSE loop(k + 1, updatedPhoneNumbers)
                     ELSE loop(k + 1, updatedPhoneNumbers)
    IN  loop(1, spread(phoneNumbers))

----------------------------------------------------------------------------
(* loadContacts: the filter and the map applied to the store's answer *)

HasNumber(phone) == phone.number # null

\* Array.prototype.includes on a list of strings
includes(list, x) == \E i \in DOMAIN list : list[i] = x

\* the same filter asking for both versions to be missing
hasUnpairedNumber_both(phoneNumbers) ==
    LET present == SelectSeq(phoneNumbers, HasNumber)
        cleaned == [i \in DOMAIN present |-> cleanNumber(present[i].number)]
        rwandanNumbers == SelectSeq(cleaned, isRwandanNumber)
    IN  IF Len(rwandanNumbers) = 0 THEN FALSE
        ELSE \E k \in DOMAIN rwandanNumbers :
               LET number == rwandanNumbers[k]
                   withCode == IF startsWith(number, s07)
                               THEN s25 \o number ELSE number
                   withoutCode == IF startsWith(number, s2507)
                                  THEN slice(number, 3) ELSE number
                   hasWithCode == includes(rwandanNumbers, withCode)
                   hasWithoutCode == includes(rwandanNumbers, withoutCode)
               IN  ~hasWithCode /\ ~hasWithoutCode

\* the phone-number part of the filter callback: some Rwandan number of the
\* contact does not have both versions
hasUnpairedNumber(phoneNumbers) ==
    LET present == SelectSeq(phoneNumbers, HasNumber)
        cleaned == [i \in DOMAIN present |-> cleanNumber(present[i].number)]
        rwandanNumbers == SelectSeq(cleaned, isRwandanNumber)
    IN  IF Len(rwandanNumbers) = 0 THEN FALSE
        ELSE \E k \in DOMAIN rwandanNumbers :
               LET number == rwandanNumbers[k]
                   withCode == IF startsWith(number, s07)
                               THEN s25 \o number ELSE number
                   withoutCode == IF startsWith(number, s2507)
                                  THEN slice(number, 3) ELSE number
                   hasWithCode == includes(rwandanNumbers, withCode)
                   hasWithoutCode == includes(rwandanNumbers, withoutCode)
               IN  ~hasWithCode \/ ~hasWithoutCode

\* a string or null that JavaScript takes as false
falsy(s) == s = null \/ s = <<>>

\* the same filter keeping every contact that has a Rwandan number
contactFilter_any(contact) ==
    IF contact.id = undefined \/ (falsy(contact.firstName) /\ falsy(contact.lastName))
    THEN FALSE
    ELSE \E i \in DOMAIN contact.phoneNumbers :
           /\ contact.phoneNumbers[i].number # null
           /\ isRwandanNumber(contact.phoneNumbers[i].number)

contactFilter(contact) ==
    IF contact.id = undefined \/ (falsy(contact.firstName) /\ falsy(contact.lastName))
    THEN FALSE
    ELSE hasUnpairedNumber(contact.phoneNumbers)

\* String.prototype.toLowerCase, on the alphabet used here
lowerChar(ch) == IF ch = "M" THEN "m" ELSE IF ch = "W" THEN "w" ELSE ch

toLowerCase(s) == [i \in DOMAIN s |-> lowerChar(s[i])]

\* label.replace("_", " "): the first underscore only
RECURSIVE replaceFirstUnderscore(_)
replaceFirstUnderscore(s) ==
    IF s = <<>> THEN <<>>
    ELSE IF Head(s) = "_" THEN <<" ">> \o Tail(s)
    ELSE <<Head(s)>> \o replaceFirstUnderscore(Tail(s))

\* phone.label?.replace("_", " ").toLowerCase() || "other"
formatLabel(label) ==
    IF label = null THEN other
    ELSE LET l == toLowerCase(replaceFirstUnderscore(label))
         IN  IF l = <<>> THEN other ELSE l

\* String.prototype.trim, for blanks
RECURSIVE trimStart(_)
trimStart(s) == IF s # <<>> /\ Head(s) = " " THEN trimStart(Tail(s)) ELSE s

RECURSIVE trimEnd(_)
trimEnd(s) ==
    IF s # <<>> /\ s[Len(s)] = " " THEN trimEnd(SubSeq(s, 1, Len(s) - 1)) ELSE s

trim(s) == trimEnd(trimStart(s))

orEmpty(s) == IF falsy(s) THEN <<>> ELSE s

IsShownPhone(phone) == phone.number # null /\ isRwandanNumber(phone.number)

formatPhone(phone) ==
    [label |-> formatLabel(phone.label), number |-> phone.number, id |-> phone.id]

formatContact(contact) ==
    LET shown == SelectSeq(contact.phoneNumbers, IsShownPhone)
    IN  [id |-> contact.id,
         name |-> trim(orEmpty(contact.firstName) \o <<" ">> \o orEmpty(contact.lastName)),
         phoneNumbers |-> [i \in DOMAIN shown |-> formatPhone(shown[i])],
         needsFix |-> TRUE]

----------------------------------------------------------------------------
(* The screen's state and the store *)

ContactIds == {"c1", "c2"}

\* the order in which getContactsAsync lists the contacts
ContactOrder == <<"c1", "c2">>

\* who called loadContacts: the mount effect or a pull to refresh ("top"),
\* handleFix of a contact (the contact's id), or handleFixSelected ("batch")
Callers == {"top", "batch"} \cup ContactIds

\* a stored phone number; the store hands out the ids
rawPhone(label, number, id) == [label |-> label, number |-> number, id |-> id]

\* the number lists the first contact may hold when the screen opens: a local
\* number beside a foreign one, a number with both versions, an
\* international number beside an entry without number, and none
StoredLists ==
    { << rawPhone(<<"M">>, <<"0", "7", " ", "1">>, "p1"),
         rawPhone(null, <<"+", "1", "5">>, "p2") >>,
      << rawPhone(<<"M">>, <<"0", "7", " ", "1">>, "p1"),
         rawPhone(<<"m">>, <<"+", "2", "5", "0", "7", "1">>, "p2") >>,
      << rawPhone(<<"w", "_">>, <<"+", "2", "5", "0", "7", "1">>, "p1"),
         rawPhone(<<"m">>, null, "p2") >>,
      << >> }

\* the second contact holds one local number, and may have no name
SecondList == << rawPhone(<<"m">>, <<"0", "7", "2">>, "p1") >>

rawContact(id, firstName, phoneNumbers) ==
    [id |-> id, firstName |-> firstName, lastName |-> null,
     phoneNumbers |-> phoneNumbers]

AppInit ==
    /\ \E l1 \in StoredLists, n2 \in {<<"B">>, null} :
         store = [c \in ContactIds |->
                    IF c = "c1" THEN rawContact(c, <<"A">>, l1)
                    ELSE rawContact(c, n2, SecondList)]
    /\ contacts = <<>>
    /\ selectedContacts = {}
    /\ loadingStates = [loadingContacts |-> TRUE, updatingContacts |-> {},
                        fixingSelected |-> FALSE]
    /\ mounted = FALSE
    /\ loadPc = [c \in Callers |-> "none"]
    /\ fixPc = [c \in ContactIds |-> "idle"]
    /\ fixArg = [c \in ContactIds |-> <<>>]
    /\ batchPc = "idle"
    /\ pending = {}

\* contacts.find((c) => c.id === contactId)
InMemory(id) == \E i \in DOMAIN contacts : contacts[i].id = id

find(id) == contacts[CHOOSE i \in DOMAIN contacts :
                       /\ contacts[i].id = id
                       /\ \A j \in 1..(i - 1) : contacts[j].id # id]

\* data.filter(...).map(...) of loadContacts
formattedContacts(data) ==
    LET kept == SelectSeq(data, contactFilter)
    IN  [i \in DOMAIN kept |-> formatContact(kept[i])]

\* Contacts.updateContactAsync taking effect: the submitted list becomes the
\* contact's number list; the name submitted with it is the one loaded
replacePhoneNumbers(st, id, phoneNumbers) ==
    [st EXCEPT ![id].phoneNumbers = phoneNumbers]

----------------------------------------------------------------------------
(* loadContacts *)

\* setLoadingStates(loadingContacts: true), then await requestPermissionsAsync
startLoad(caller) ==
    /\ loadPc' = [loadPc EXCEPT ![caller] = "permission"]
    /\ loadingStates' = [loadingStates EXCEPT !.loadingContacts = TRUE]

\* the same with handleFix's finally block leaving updatingContacts alone
finishLoad_stuck(caller, selected) ==
    /\ loadPc' = [loadPc EXCEPT ![caller] = "none"]
    /\ loadingStates' =
         [loadingContacts |-> FALSE,
          updatingContacts |-> loadingStates.updatingContacts,
          fixingSelected |-> IF caller = "batch" THEN FALSE
                             ELSE loadingStates.fixingSelected]
    /\ selectedContacts' = IF caller = "batch" THEN {} ELSE selected
    /\ fixPc' = IF caller \in ContactIds
                THEN [fixPc EXCEPT ![caller] = "idle"] ELSE fixPc
    /\ fixArg' = IF caller \in ContactIds
                 THEN [fixArg EXCEPT ![caller] = <<>>] ELSE fixArg
    /\ batchPc' = IF caller = "batch" THEN "idle" ELSE batchPc

\* the finally block of loadContacts, and what its caller does once the
\* awaited call returns: the finally block of handleFix, or the selection
\* reset and the finally block of handleFixSelected
finishLoad(caller, selected) ==
    /\ loadPc' = [loadPc EXCEPT ![caller] = "none"]
    /\ loadingStates' =
         [loadingContacts |-> FALSE,
          updatingContacts |-> IF caller \in ContactIds
                               THEN loadingStates.updatingContacts \ {caller}
                               ELSE loadingStates.updatingContacts,
          fixingSelected |-> IF caller = "batch" THEN FALSE
                             ELSE loadingStates.fixingSelected]
    /\ selectedContacts' = IF caller = "batch" THEN {} ELSE selected
    /\ fixPc' = IF caller \in ContactIds
                THEN [fixPc EXCEPT ![caller] = "idle"] ELSE fixPc
    /\ fixArg' = IF caller \in ContactIds
                 THEN [fixArg EXCEPT ![caller] = <<>>] ELSE fixArg
    /\ batchPc' = IF caller = "batch" THEN "idle" ELSE batchPc

\* useEffect(() => { loadContacts(); }, [loadContacts])
Mount ==
    /\ ~mounted
    /\ mounted' = TRUE
    /\ startLoad("top")
    /\ UNCHANGED <<store, contacts, selectedContacts, fixPc, fixArg, batchPc,
                   pending, phones, fn>>

\* RefreshControl onRefresh={loadContacts}
Refresh ==
    /\ mounted
    /\ loadPc["top"] = "none"
    /\ startLoad("top")
    /\ UNCHANGED <<store, contacts, selectedContacts, mounted, fixPc, fixArg,
                   batchPc, pending, phones, fn>>

\* requestPermissionsAsync answers "granted": getContactsAsync is awaited
PermissionGranted(caller) ==
    /\ loadPc[caller] = "permission"
    /\ loadPc' = [loadPc EXCEPT ![caller] = "contacts"]
    /\ UNCHANGED <<store, contacts, selectedContacts, loadingStates, mounted,
                   fixPc, fixArg, batchPc, pending, phones, fn>>

\* requestPermissionsAsync answers anything else: the if is skipped
PermissionNotGranted(caller) ==
    /\ loadPc[caller] = "permission"
    /\ finishLoad(caller, selectedContacts)
    /\ UNCHANGED <<store, contacts, mounted, pending, phones, fn>>

\* either awaited call rejects: catch, console.error, finally
LoadThrows(caller) ==
    /\ loadPc[caller] \in {"permission", "contacts"}
    /\ finishLoad(caller, selectedContacts)
    /\ UNCHANGED <<store, contacts, mounted, pending, phones, fn>>

\* getContactsAsync answers: filter, map, setContacts, setSelectedContacts
ContactsLoaded(caller) ==
    /\ loadPc[caller] = "contacts"
    /\ contacts' = formattedContacts([i \in DOMAIN ContactOrder |->
                                        store[ContactOrder[i]]])
    /\ finishLoad(caller, {})
    /\ UNCHANGED <<store, mounted, pending, phones, fn>>

----------------------------------------------------------------------------
(* handleFix *)

\* "Fix Contact" pressed: the button is enabled while the contact is not in
\* updatingContacts; the number list is computed and updateContactAsync called
HandleFix(id) ==
    /\ InMemory(id)
    /\ find(id).needsFix
    /\ id \notin loadingStates.updatingContacts
    /\ loadingStates' = [loadingStates EXCEPT
                           !.updatingContacts = @ \cup {id}]
    /\ fixArg' = [fixArg EXCEPT ![id] = handleFixPhones(find(id).phoneNumbers)]
    /\ fixPc' = [fixPc EXCEPT ![id] = "update"]
    /\ UNCHANGED <<store, contacts, selectedContacts, mounted, loadPc, batchPc,
                   pending, phones, fn>>

\* updateContactAsync resolves: the store holds the submitted list, and
\* loadContacts is called and awaited
FixUpdated(id) ==
    /\ fixPc[id] = "update"
    /\ store' = replacePhoneNumbers(store, id, fixArg[id])
    /\ fixPc' = [fixPc EXCEPT ![id] = "load"]
    /\ startLoad(id)
    /\ UNCHANGED <<contacts, selectedContacts, mounted, fixArg, batchPc,
                   pending, phones, fn>>

\* updateContactAsync rejects: catch, then the finally block
FixUpdateFails(id) ==
    /\ fixPc[id] = "update"
    /\ fixPc' = [fixPc EXCEPT ![id] = "idle"]
    /\ fixArg' = [fixArg EXCEPT ![id] = <<>>]
    /\ loadingStates' = [loadingStates EXCEPT
                           !.updatingContacts = @ \ {id}]
    /\ UNCHANGED <<store, contacts, selectedContacts, mounted, loadPc, batchPc,
                   pending, phones, fn>>

----------------------------------------------------------------------------
(* handleFixSelected *)

\* the updateContactAsync calls pushed to updatePromises: one per selected
\* id that contacts.find finds. Calls in flight are kept as a set: two calls
\* for the same contact with the same list, both no longer waited for, count
\* as one, which changes no store the calls can produce
updatePromises(selected) ==
    { [id |-> id,
       phoneNumbers |-> handleFixSelectedPhones(find(id).phoneNumbers),
       awaited |-> TRUE] : id \in {c \in selected : InMemory(c)} }

\* a rejection that would cancel the calls still in flight
afterRejection_cancel(rest) == {}

\* Promise.all has rejected: the calls it was waiting for stay in flight,
\* only nobody waits for them any more
afterRejection(rest) == { [u EXCEPT !.awaited = FALSE] : u \in rest }

\* "Fix Selected Contacts" pressed: shown while something is selected,
\* enabled while fixingSelected is false
HandleFixSelected ==
    /\ selectedContacts # {}
    /\ ~loadingStates.fixingSelected
    /\ loadingStates' = [loadingStates EXCEPT !.fixingSelected = TRUE]
    /\ pending' = pending \cup updatePromises(selectedContacts)
    /\ batchPc' = "await"
    /\ UNCHANGED <<store, contacts, selectedContacts, mounted, loadPc, fixPc,
                   fixArg, phones, fn>>

\* one updateContactAsync of the batch resolves
UpdateSucceeds(u) ==
    /\ u \in pending
    /\ store' = replacePhoneNumbers(store, u.id, u.phoneNumbers)
    /\ pending' = pending \ {u}
    /\ UNCHANGED <<contacts, selectedContacts, loadingStates, mounted, loadPc,
                   fixPc, fixArg, batchPc, phones, fn>>

\* one updateContactAsync of the batch rejects; if Promise.all is still
\* waiting for it, Promise.all rejects: catch, then the finally block
UpdateFails(u) ==
    /\ u \in pending
    /\ IF u.awaited
       THEN /\ pending' = afterRejection(pending \ {u})
            /\ loadingStates' = [loadingStates EXCEPT !.fixingSelected = FALSE]
            /\ batchPc' = "idle"
       ELSE /\ pending' = pending \ {u}
            /\ UNCHANGED <<loadingStates, batchPc>>
    /\ UNCHANGED <<store, contacts, selectedContacts, mounted, loadPc, fixPc,
                   fixArg, phones, fn>>

\* Promise.all resolves: loadContacts is called and awaited
BatchUpdated ==
    /\ batchPc = "await"
    /\ \A u \in pending : ~u.awaited
    /\ batchPc' = "load"
    /\ startLoad("batch")
    /\ UNCHANGED <<store, contacts, selectedContacts, mounted, fixPc, fixArg,
                   pending, phones, fn>>

----------------------------------------------------------------------------
(* Selection *)

\* a row of the list pressed
toggleSelect(id) ==
    /\ InMemory(id)
    /\ selectedContacts' = IF id \in selectedContacts
                           THEN selectedContacts \ {id}
                           ELSE selectedContacts \cup {id}
    /\ UNCHANGED <<store, contacts, loadingStates, mounted, loadPc, fixPc,
                   fixArg, batchPc, pending, phones, fn>>

\* contacts.filter((contact) => contact.needsFix)
contactsNeedingFix == SelectSeq(contacts, LAMBDA c : c.needsFix)

\* "Select All": shown while nothing is selected
selectAll ==
    /\ Len(contactsNeedingFix) > 0
    /\ ~loadingStates.loadingContacts
    /\ selectedContacts = {}
    /\ selectedContacts' = {contactsNeedingFix[i].id : i \in DOMAIN contactsNeedingFix}
    /\ UNCHANGED <<store, contacts, loadingStates, mounted, loadPc, fixPc,
                   fixArg, batchPc, pending, phones, fn>>

\* "Clear": shown while something is selected, disabled while fixingSelected
clearSelection ==
    /\ Len(contactsNeedingFix) > 0
    /\ ~loadingStates.loadingContacts
    /\ selectedContacts # {}
    /\ ~loadingStates.fixingSelected
    /\ selectedContacts' = {}
    /\ UNCHANGED <<store, contacts, loadingStates, mounted, loadPc, fixPc,
                   fixArg, batchPc, pending, phones, fn>>

----------------------------------------------------------------------------
(* The screen *)

Init ==
    /\ AppInit
    /\ phones = <<>>
    /\ fn = [op |-> "none"]

Next ==
    \/ Mount
    \/ Refresh
    \/ \E caller \in Callers : PermissionGranted(caller)
    \/ \E caller \in Callers : PermissionNotGranted(caller)
    \/ \E caller \in Callers : LoadThrows(caller)
    \/ \E caller \in Callers : ContactsLoaded(caller)
    \/ \E id \in ContactIds : HandleFix(id)
    \/ \E id \in ContactIds : FixUpdated(id)
    \/ \E id \in ContactIds : FixUpdateFails(id)
    \/ HandleFixSelected
    \/ \E u \in pending : UpdateSucceeds(u)
    \/ \E u \in pending : UpdateFails(u)
    \/ BatchUpdated
    \/ \E id \in ContactIds : toggleSelect(id)
    \/ selectAll
    \/ clearSelection

Spec == Init /\ [][Next]_vars

----------------------------------------------------------------------------
(* The pure functions on their own: the input is drawn when the run starts *)
(* and each step applies one function to it                                *)

Labels == { <<"m">>, <<"m", "'">>, <<".">> }

Numbers == { <<"0", "7", "1">>, <<"0", "7", " ", "1">>,
             <<"+", "2", "5", "0", "7", "1">>,
             <<"+", "2", "5", "0", "-", "7", "2">>,
             <<"+", "1", "5">> }

PhoneIdAt(i) == IF i = 1 THEN "p1" ELSE IF i = 2 THEN "p2"
                ELSE IF i = 3 THEN "p3" ELSE IF i = 4 THEN "p4" ELSE "p5"

\* the phone list a choice of (label, number) pairs stands for
phoneList(f) ==
    [i \in DOMAIN f |-> [label |-> f[i][1], number |-> f[i][2],
                         id |-> PhoneIdAt(i)]]

labelsOf(phoneNumbers) == [i \in DOMAIN phoneNumbers |-> phoneNumbers[i].label]

FnInit ==
    /\ \E k \in 0..MaxPhones :
         \E f \in [1..k -> Labels \X Numbers] : phones = phoneList(f)
    /\ fn = [op |-> "none"]
    /\ store = [c \in ContactIds |-> rawContact(c, null, <<>>)]
    /\ contacts = <<>>
    /\ selectedContacts = {}
    /\ loadingStates = [loadingContacts |-> TRUE, updatingContacts |-> {},
                        fixingSelected |-> FALSE]
    /\ mounted = FALSE
    /\ loadPc = [c \in Callers |-> "none"]
    /\ fixPc = [c \in ContactIds |-> "idle"]
    /\ fixArg = [c \in ContactIds |-> <<>>]
    /\ batchPc = "idle"
    /\ pending = {}

ApplyHandleFix ==
    /\ fn.op = "none"
    /\ fn' = [op |-> "handleFix", in |-> phones, out |-> handleFixPhones(phones)]
    /\ UNCHANGED <<appVars, phones>>

ApplyHandleFixSelected ==
    /\ fn.op = "none"
    /\ fn' = [op |-> "handleFixSelected", in |-> phones,
              out |-> handleFixSelectedPhones(phones)]
    /\ UNCHANGED <<appVars, phones>>

\* the computation applied to its own result
ApplyAgain ==
    /\ fn.op \in {"handleFix", "handleFixSelected"}
    /\ fn' = [op |-> "again", in |-> fn.out,
              out |-> IF fn.op = "handleFix" THEN handleFixPhones(fn.out)
                      ELSE handleFixSelectedPhones(fn.out)]
    /\ UNCHANGED <<appVars, phones>>

\* the filter of loadContacts beside the computation of handleFix
ApplyFilter ==
    /\ fn.op = "none"
    /\ fn' = [op |-> "filter", in |-> phones, out |-> hasUnpairedNumber(phones),
              fixed |-> handleFixPhones(phones)]
    /\ UNCHANGED <<appVars, phones>>

ApplyGetNextLabel ==
    /\ fn.op = "none"
    /\ \E label \in Labels :
         fn' = [op |-> "getNextLabel", label |-> label,
                existingLabels |-> labelsOf(phones),
                out |-> getNextLabel(label, labelsOf(phones))]
    /\ UNCHANGED <<appVars, phones>>

ApplyAddCountryCode ==
    /\ fn.op = "none"
    /\ \E number \in Numbers :
         fn' = [op |-> "addCountryCode", number |-> number,
                out |-> addCountryCode(number)]
    /\ UNCHANGED <<appVars, phones>>

FnNext ==
    \/ ApplyHandleFix
    \/ ApplyHandleFixSelected
    \/ ApplyAgain
    \/ ApplyFilter
    \/ ApplyGetNextLabel
    \/ ApplyAddCountryCode

FnSpec == FnInit /\ [][FnNext]_vars

----------------------------------------------------------------------------
(* Properties of the reconcile computation *)

IsFixResult == fn.op \in {"handleFix", "handleFixSelected"}

\* a number of the list, cleaned, is local or international
IsLocal(number) == startsWith(cleanNumber(number), s07)

IsIntl(number) == startsWith(cleanNumber(number), s2507)

\* the entries the computation appended
Appended == { i \in DOMAIN fn.out : i > Len(fn.in) }

\* C2: in the list computed by handleFix or handleFixSelected, every entry
\* whose cleaned number starts with "07" has an entry whose cleaned number is
\* "+25" followed by it, and every entry whose cleaned number starts with
\* "+2507" has an entry whose cleaned number is it without its first three
\* characters.
C2_Closure ==
    IsFixResult =>
      \A i \in DOMAIN fn.out :
        LET c == cleanNumber(fn.out[i].number)
        IN  /\ startsWith(c, s07) => hasCleanNumber(fn.out, s25 \o c)
            /\ startsWith(c, s2507) => hasCleanNumber(fn.out, slice(c, 3))

\* a list with a local and an international number, both without counterpart
\* in the input, has been reconciled
C2_Witness ==
    /\ IsFixResult
    /\ \E i \in DOMAIN fn.in :
         /\ IsLocal(fn.in[i].number)
         /\ ~hasCleanNumber(fn.in, s25 \o cleanNumber(fn.in[i].number))
    /\ \E i \in DOMAIN fn.in :
         /\ IsIntl(fn.in[i].number)
         /\ ~hasCleanNumber(fn.in, slice(cleanNumber(fn.in[i].number), 3))
    /\ Len(fn.out) >= Len(fn.in) + 2

\* C3: the computation applied to its own result returns that result
\* unchanged: the second pass appends nothing.
C3_Idempotent == fn.op = "again" => fn.out = fn.in

\* the second pass ran on a list the first pass had extended, one of whose
\* original numbers is written with a blank or a hyphen
C3_Witness ==
    /\ fn.op = "again"
    /\ Len(fn.in) > Len(phones)
    /\ \E i \in DOMAIN phones : cleanNumber(phones[i].number) # phones[i].number

\* C4: the entries appended in one pass have pairwise distinct labels.
C4_DistinctNewLabels ==
    IsFixResult =>
      \A i, j \in Appended : i # j => fn.out[i].label # fn.out[j].label

\* C5: the filter of loadContacts is true of a phone list exactly when the
\* computation of handleFix returns a longer list; it is false of a list
\* without managed number.
C5_FilterIffLonger ==
    fn.op = "filter" =>
      /\ fn.out <=> Len(fn.fixed) > Len(fn.in)
      /\ (\A i \in DOMAIN fn.in : ~isRwandanNumber(fn.in[i].number)) => ~fn.out

\* the filter was true of a list that also holds a number with both
\* versions, and the computation made that list longer
C5_Witness ==
    /\ fn.op = "filter"
    /\ fn.out
    /\ Len(fn.fixed) > Len(fn.in)
    /\ \E i \in DOMAIN fn.in :
         /\ IsLocal(fn.in[i].number)
         /\ hasCleanNumber(fn.in, s25 \o cleanNumber(fn.in[i].number))

\* the labels of the list that are the base followed by primes only
SameBase(base, existingLabels) ==
    { i \in DOMAIN existingLabels :
        /\ Len(existingLabels[i]) >= Len(base)
        /\ existingLabels[i] =
             base \o repeatPrime(Len(existingLabels[i]) - Len(base)) }

\* C6: getNextLabel returns the base of the label followed by m+1 primes,
\* m being the largest number of trailing primes among the existing labels
\* that are the base followed by primes (0 when there is none); the result
\* is none of those labels.
C6_NextLabel ==
    fn.op = "getNextLabel" =>
      LET base == stripPrimes(fn.label)
          same == SameBase(base, fn.existingLabels)
          m == Max({trailingPrimes(fn.existingLabels[i]) : i \in same} \cup {0})
      IN  /\ fn.out = base \o repeatPrime(m + 1)
          /\ \A i \in same : fn.existingLabels[i] # fn.out

\* C7: for a number whose cleaned form starts with "07", addCountryCode
\* returns "+25" followed by the cleaned number, which starts with "+2507"
\* and gives the cleaned number back without its first three characters.
C7_AddCountryCode ==
    (fn.op = "addCountryCode" /\ IsLocal(fn.number)) =>
      /\ fn.out = s25 \o cleanNumber(fn.number)
      /\ startsWith(fn.out, s2507)
      /\ slice(fn.out, 3) = cleanNumber(fn.number)

\* C8: the computed list has the input list as a prefix: every existing
\* entry keeps its label, number, id and position, the new ones follow.
C8_InputIsPrefix ==
    IsFixResult =>
      /\ Len(fn.out) >= Len(fn.in)
      /\ SubSeq(fn.out, 1, Len(fn.in)) = fn.in

\* a list with a number outside the scheme ahead of a managed one has been
\* extended
C8_Witness ==
    /\ IsFixResult
    /\ Len(fn.out) > Len(fn.in)
    /\ Len(fn.in) >= 2
    /\ ~isRwandanNumber(fn.in[1].number)

----------------------------------------------------------------------------
(* Properties of the screen *)

\* how often a number occurs in a list
occurrences(list, number) ==
    Cardinality({i \in DOMAIN list : list[i].number = number})

\* every stored number outside the scheme is in the submitted list as
\* often as it is stored
PassesThrough(stored, submitted) ==
    \A i \in DOMAIN stored :
      (stored[i].number # null /\ ~isRwandanNumber(stored[i].number)) =>
        occurrences(submitted, stored[i].number) =
          occurrences(stored, stored[i].number)

\* C1: the list handleFix or handleFixSelected hands to the store as the
\* replacement of a contact's numbers contains every stored number of that
\* contact whose cleaned form starts with neither "07" nor "+2507",
\* unmodified and exactly once.
C1_Passthrough ==
    [][ /\ \A id \in ContactIds :
             (fixPc[id] = "idle" /\ fixPc'[id] = "update") =>
               PassesThrough(store[id].phoneNumbers, fixArg'[id])
        /\ \A u \in pending' \ pending :
             u.awaited => PassesThrough(store[u.id].phoneNumbers, u.phoneNumbers)
      ]_vars

\* the updates that are over after a step: neither the call nor the same
\* call with nobody waiting for it is in flight afterwards
Settled == { u \in pending :
               /\ u \notin pending'
               /\ [u EXCEPT !.awaited = FALSE] \notin pending' }

\* C9: handleFixSelected submits an update for every selected contact it
\* finds; each update settles on its own, whatever became of the others: a
\* step settles at most one of them, the store changes only at the contact
\* whose update settles and only to the list that update submitted.
C9_BatchTolerance ==
    [][ /\ (batchPc = "idle" /\ batchPc' = "await") =>
             \A id \in selectedContacts :
               InMemory(id) =>
                 \E u \in pending' :
                   /\ u.id = id
                   /\ u.awaited
                   /\ u.phoneNumbers = handleFixSelectedPhones(find(id).phoneNumbers)
        /\ Cardinality(Settled) <= 1
        /\ \A id \in ContactIds :
             store'[id] # store[id] =>
               \/ fixPc[id] = "update" /\ fixPc'[id] = "load"
                                       /\ store'[id].phoneNumbers = fixArg[id]
               \/ \E u \in pending \ pending' :
                    u.id = id /\ store'[id].phoneNumbers = u.phoneNumbers
      ]_vars

\* one update of a batch has failed and handleFixSelected has ended, while
\* the update of another contact is still in flight with nobody waiting
C9_Witness ==
    /\ batchPc = "idle"
    /\ ~loadingStates.fixingSelected
    /\ \E u \in pending : ~u.awaited

\* C10: when a loadContacts call ends at its permission request, the
\* request not being granted, the in-memory contact list is empty.
C10_DeniedMeansEmpty ==
    [][ \A caller \in Callers :
          (loadPc[caller] = "permission" /\ loadPc'[caller] = "none") =>
            contacts' = <<>>
      ]_vars

\* some managed number of the list has no counterpart in the list
HasUnpairedManaged(list) ==
    \E i \in DOMAIN list :
      LET c == cleanNumber(list[i].number)
      IN  \/ startsWith(c, s07) /\ ~hasCleanNumber(list, s25 \o c)
          \/ startsWith(c, s2507) /\ ~hasCleanNumber(list, slice(c, 3))

\* C11: in every reachable state, every contact of the in-memory list has
\* needsFix true exactly when its own phoneNumbers hold a managed number
\* whose counterpart is not among them, and holds at least one managed
\* number.
C11_NeedsFixDerived ==
    \A i \in DOMAIN contacts :
      /\ contacts[i].needsFix <=> HasUnpairedManaged(contacts[i].phoneNumbers)
      /\ \E j \in DOMAIN contacts[i].phoneNumbers :
           isRwandanNumber(contacts[i].phoneNumbers[j].number)

\* after a fix and a reload: a contact whose stored list was extended is no
\* longer in the in-memory list, another contact still is
C11_Witness ==
    /\ Len(contacts) > 0
    /\ \E id \in ContactIds :
         /\ ~InMemory(id)
         /\ \E j \in DOMAIN store[id].phoneNumbers :
              store[id].phoneNumbers[j].id = undefined

\* C12: in the list computed by handleFix or handleFixSelected, no two
\* appended entries have the same number, also when several existing
\* entries clean to the same managed number.
C12_AppendedOnce ==
    IsFixResult =>
      \A i, j \in Appended : i # j => fn.out[i].number # fn.out[j].number

\* the mount effect has run and no call of loadContacts, handleFix or
\* handleFixSelected is under way
Quiescent ==
    /\ mounted
    /\ \A caller \in Callers : loadPc[caller] = "none"
    /\ \A id \in ContactIds : fixPc[id] = "idle"
    /\ batchPc = "idle"

\* C13: whenever every started call of loadContacts, handleFix and
\* handleFixSelected has completed, whether its permission request and
\* store calls succeeded or failed, loadingContacts is false,
\* fixingSelected is false and updatingContacts is empty.
C13_NoStuckFlag ==
    Quiescent =>
      /\ ~loadingStates.loadingContacts
      /\ ~loadingStates.fixingSelected
      /\ loadingStates.updatingContacts = {}

\* all calls are over, one of them after a failure: a contact whose stored
\* list was extended is still in the in-memory list, its reload having failed
C13_Witness ==
    /\ Quiescent
    /\ \E id \in ContactIds :
         /\ InMemory(id)
         /\ \E j \in DOMAIN store[id].phoneNumbers :
              store[id].phoneNumbers[j].id = undefined

====
